---- MODULE Spec2Model ----
(***************************************************************************)
(* A model of vpcctl (src/vpcctl.py): the VPC/subnet model, the command    *)
(* executor run_cmd, the JSON record store under CONFIG_DIR and the CLI    *)
(* dispatch of main(), over a model of the Linux networking state that the *)
(* issued commands act on.                                                 *)
(*                                                                         *)
(* Text values.  Names are strings.  A CIDR text "a.b.c.d/n" is the record *)
(* [oct |-> <<a,b,c,d>>, len |-> n]; an address text "a.b.c.d" is the      *)
(* tuple <<a,b,c,d>>.  A Python dict is the sequence of its [k, v] items   *)
(* in insertion order.                                                     *)
(***************************************************************************)
EXTENDS Integers, Sequences, FiniteSets, TLC

VARIABLES
    os,      \* live OS networking state (namespaces, links, routes, rules)
    store,   \* CONFIG_DIR: file stem -> JSON document, or NoFile
    last,    \* the CLI invocation that ran last: arguments, exit code, calls
    faulty,  \* how many invocations the environment has disturbed so far
    mem,     \* an in-memory VPC object (record store specification)
    saved,   \* per name, the VPC object its last save_config wrote
    loaded,  \* the result of the last VPC.load (record store specification)
    call,    \* one run_cmd call and its outcome (executor specification)
    proc,    \* per concurrent CLI process, where it stands in its handler
    calc     \* one IPUtils computation: the CIDR and what came back

vars == <<os, store, last, faulty, mem, saved, loaded, call, proc, calc>>

-----------------------------------------------------------------------------
(* Bounds and vocabulary *)

MaxFilt == 3           \* cap on the packet-filter rules installed at one time
MaxNat == 2            \* cap on the enable-nat invocations of a behaviour
MaxRules == 1          \* cap on the rules and listeners installed at one time
MaxFaultyRuns == 1     \* cap on the invocations with an injected failure

VpcNames    == {"vpc1"}
SubnetNames == {"web", "db"}
Ifaces      == {"eth0", "wlan0"}

Cidr(a, b, c, d, n) == [oct |-> <<a, b, c, d>>, len |-> n]

VpcCidrs    == {Cidr(10, 5, 0, 0, 16)}

NoFile == "NoFile"
HostNS == ""           \* the host's own network namespace

-----------------------------------------------------------------------------
(* Python dict, as the sequence of its items *)

DictKeys(d) == {d[i].k : i \in 1..Len(d)}

DictHas(d, key) == key \in DictKeys(d)

DictIdx(d, key) == CHOOSE i \in 1..Len(d) : d[i].k = key

DictGet(d, key) == d[DictIdx(d, key)].v

\* d[key] = val : an existing key keeps its position, a new key is appended
DictPut(d, key, val) ==
    IF DictHas(d, key)
    THEN [d EXCEPT ![DictIdx(d, key)] = [k |-> key, v |-> val]]
    ELSE Append(d, [k |-> key, v |-> val])

-----------------------------------------------------------------------------
(* IPUtils: ipaddress.IPv4Network(cidr, strict=False) arithmetic *)

Pow2(n) == IF n = 0 THEN 1 ELSE IF n = 1 THEN 2 ELSE IF n = 2 THEN 4
           ELSE IF n = 3 THEN 8 ELSE IF n = 4 THEN 16 ELSE IF n = 5 THEN 32
           ELSE IF n = 6 THEN 64 ELSE IF n = 7 THEN 128 ELSE 256

ValidCidr(c) ==
    /\ c.len \in 0..32
    /\ \A i \in 1..4 : c.oct[i] \in 0..255

\* number of bits of octet i covered by a prefix of length n
KeptBits(n, i) ==
    LET k == n - 8 * (i - 1) IN IF k < 0 THEN 0 ELSE IF k > 8 THEN 8 ELSE k

\* variant: the host bits of the address are kept
MaskOctet_Keep(c, i) == c.oct[i]

\* network.network_address : the address with its host bits cleared
MaskOctet(c, i) ==
    LET h == Pow2(8 - KeptBits(c.len, i)) IN (c.oct[i] \div h) * h

NetworkAddress(c) ==
    <<MaskOctet(c, 1), MaskOctet(c, 2), MaskOctet(c, 3), MaskOctet(c, 4)>>

AddrOverflow == <<256, 0, 0, 0>>

\* IPv4Address + 1, with carry between octets
AddOne(a) ==
    IF a[4] < 255 THEN [a EXCEPT ![4] = a[4] + 1]
    ELSE IF a[3] < 255 THEN [a EXCEPT ![3] = a[3] + 1, ![4] = 0]
    ELSE IF a[2] < 255 THEN [a EXCEPT ![2] = a[2] + 1, ![3] = 0, ![4] = 0]
    ELSE IF a[1] < 255 THEN <<a[1] + 1, 0, 0, 0>>
    ELSE AddrOverflow

\* whether the library call raises (malformed text, or address overflow)
IPRaises(c) == ~ValidCidr(c) \/ AddOne(NetworkAddress(c)) = AddrOverflow

get_gateway_ip(vpc_cidr) == AddOne(NetworkAddress(vpc_cidr))

\* variant: the next address after the one written, host bits kept
get_subnet_ip_Unmasked(subnet_cidr) ==
    [oct |-> AddOne(subnet_cidr.oct), len |-> subnet_cidr.len]

get_subnet_ip(subnet_cidr) ==
    [oct |-> AddOne(NetworkAddress(subnet_cidr)), len |-> subnet_cidr.len]

\* whether address a lies in the network of interface address c
InNet(a, c) == NetworkAddress([oct |-> a, len |-> c.len]) = NetworkAddress(c)

-----------------------------------------------------------------------------
(* run_cmd: the executor's failure policy *)

\* A stderr text is the sequence of its phrases; "sig in text" is the
\* contiguous-subsequence test.
Contains(text, sig) ==
    \E i \in 1..Len(text) :
        /\ i + Len(sig) - 1 <= Len(text)
        /\ SubSeq(text, i, i + Len(sig) - 1) = sig

\* variant: only the gateway signature is known
Signatures_GatewayOnly == { <<"Nexthop has invalid gateway">> }

Signatures == {
    <<"File exists">>,
    <<"RTNETLINK answers: ", "File exists">>,
    <<"Address already assigned">>,
    <<"already exists">>,
    <<"Cannot find device">>,
    <<"Nexthop has invalid gateway">>,
    <<"Attribute failed policy validation">> }

ErrNsExists == <<"Cannot create namespace file: ", "File exists">>
ErrRtExists == <<"RTNETLINK answers: ", "File exists">>
ErrAssigned == <<"Error: ipv4: ", "Address already assigned">>
ErrNoDev    == <<"Cannot find device">>
ErrBadGw    == <<"Error: ", "Nexthop has invalid gateway">>
ErrPolicy   == <<"Error: ", "Attribute failed policy validation">>
ErrPerm     == <<"RTNETLINK answers: ", "Operation not permitted">>
ErrNoNs     == <<"Cannot open network namespace">>
ErrBadNs    == <<"Invalid netns value">>
ErrBadRule  == <<"iptables: ", "Bad rule">>
ErrNone     == <<>>
NotCaptured == <<"None">>            \* str(e.stderr) when stderr is None

StderrTexts == {ErrNsExists, ErrRtExists, ErrAssigned, ErrNoDev, ErrBadGw,
                ErrPolicy, ErrPerm, ErrNoNs, ErrBadNs, ErrBadRule, ErrNone}

MatchesSignature(text) == \E sig \in Signatures : Contains(text, sig)

Flags(check, capture, ignore_exists, ignore_errors, capture_output) ==
    [check |-> check, capture |-> capture, ignore_exists |-> ignore_exists,
     ignore_errors |-> ignore_errors, capture_output |-> capture_output]

Default      == Flags(TRUE, TRUE, FALSE, FALSE, FALSE)
IgnoreExists == Flags(TRUE, TRUE, TRUE, FALSE, FALSE)
IgnoreErrors == Flags(TRUE, TRUE, FALSE, TRUE, FALSE)
\* variant: teardown commands run with check left at its default
NoCheck_Checked == Flags(TRUE, TRUE, FALSE, FALSE, FALSE)

NoCheck      == Flags(FALSE, TRUE, FALSE, FALSE, FALSE)
CaptureOut   == Flags(TRUE, TRUE, FALSE, FALSE, TRUE)

\* e.stderr as the except clause sees it: captured only if the pipe was asked for
SeenStderr(stderr, f) ==
    IF f.capture_output \/ f.capture THEN stderr ELSE NotCaptured

\* The outcome of run_cmd for a command that exited rc writing stderr:
\* raised (the CalledProcessError propagates), ret (what is returned),
\* warn (which warning was logged).
run_cmd(rc, stderr, f) ==
    IF ~(f.check /\ rc # 0)
    THEN [raised |-> FALSE, warn |-> "",
          ret |-> IF f.capture_output THEN "result"
                  ELSE IF f.capture THEN "stdout" ELSE "None"]
    ELSE IF f.ignore_exists /\ MatchesSignature(SeenStderr(stderr, f))
    THEN [raised |-> FALSE, warn |-> "already configured", ret |-> "None"]
    ELSE IF f.ignore_errors
    THEN [raised |-> FALSE, warn |-> "ignoring", ret |-> "None"]
    ELSE [raised |-> TRUE, warn |-> "", ret |-> "None"]

-----------------------------------------------------------------------------
(* The OS networking state the issued commands act on *)

InitOS ==
    [netns   |-> {},      \* named network namespaces
     links   |-> {},      \* interfaces: [ns, name, kind, pair, master, up, addrs]
     defrt   |-> {},      \* default routes inside namespaces: [ns, via]
     hostrt  |-> {},      \* host routes: [dst, dev]
     nat     |-> <<>>,    \* nat POSTROUTING MASQUERADE rules, in order
     fwd     |-> <<>>,    \* filter FORWARD rules, in order
     filt    |-> <<>>,    \* per-namespace filter INPUT rules, in order
     forward |-> FALSE,   \* net.ipv4.ip_forward
     procs   |-> {}]      \* listeners started inside namespaces

Link(ns, name, kind, pair) ==
    [ns |-> ns, name |-> name, kind |-> kind, pair |-> pair,
     master |-> "", up |-> FALSE, addrs |-> {}]

HasLink(o, ns, name) == \E l \in o.links : l.ns = ns /\ l.name = name

TheLink(o, ns, name) == CHOOSE l \in o.links : l.ns = ns /\ l.name = name

NsOk(o, ns) == ns = HostNS \/ ns \in o.netns

SetLink(o, l, new) == [o EXCEPT !.links = (@ \ {l}) \cup {new}]

SeqRemove(q, i) == SubSeq(q, 1, i - 1) \o SubSeq(q, i + 1, Len(q))

Ok(o)      == [os |-> o, rc |-> 0, err |-> ErrNone]
Fail(o, e) == [os |-> o, rc |-> 1, err |-> e]

ErrNoFile    == <<"Cannot remove namespace file: ", "No such file or directory">>
ErrBadName   == <<"Error: argument is wrong: ", "\"name\" not a valid ifname">>
ErrBadPrefix == <<"Error: ", "Invalid prefix for given prefix length">>
ErrNetDown   == <<"RTNETLINK answers: ", "Network is down">>

IFNAMSIZ == 16    \* an interface name has at most IFNAMSIZ - 1 characters

ValidIfname(name) == Len(name) >= 1 /\ Len(name) < IFNAMSIZ

\* whether some interface of the namespace, up, is on the gateway's network
Reachable(o, ns, via) ==
    \E l \in o.links :
        /\ l.ns = ns /\ l.up
        /\ \E a \in l.addrs : InNet(via, a) /\ a.oct # via

\* ip netns del: the namespace goes with its interfaces (and the other end
\* of each veth among them), its routes, its rules and its listeners
DelNetns(o, n) ==
    LET gone  == {l \in o.links : l.ns = n}
        pairs == {l.pair : l \in {g \in gone : g.kind = "veth"}}
        keepf(r) == r.ns # n
    IN [o EXCEPT
          !.netns  = @ \ {n},
          !.links  = {l \in @ : l \notin gone /\ ~(l.kind = "veth" /\ l.pair \in pairs)},
          !.defrt  = {r \in @ : r.ns # n},
          !.filt   = SelectSeq(@, keepf),
          !.procs  = {p \in @ : p.ns # n}]

\* ip link del in the host namespace
DelLink(o, dev) ==
    LET l == TheLink(o, HostNS, dev) IN
    IF l.kind = "veth"
    THEN [o EXCEPT !.links = {x \in @ : ~(x.kind = "veth" /\ x.pair = l.pair)}]
    ELSE [o EXCEPT
            !.links  = {IF x.master = dev /\ x.ns = HostNS
                        THEN [x EXCEPT !.master = ""] ELSE x : x \in @ \ {l}},
            !.hostrt = {r \in @ : r.dev # dev}]

\* One command against the OS state: the new state, the exit code and stderr.
Exec(o, c) ==
    CASE c.op = "br_add" ->           \* ip link add <dev> type bridge
           IF ~ValidIfname(c.dev) THEN Fail(o, ErrBadName)
           ELSE IF HasLink(o, HostNS, c.dev) THEN Fail(o, ErrRtExists)
           ELSE Ok([o EXCEPT !.links = @ \cup {Link(HostNS, c.dev, "bridge", "")}])
      [] c.op = "link_up" ->          \* [ip netns exec <ns>] ip link set <dev> up
           IF ~NsOk(o, c.ns) THEN Fail(o, ErrNoNs)
           ELSE IF ~HasLink(o, c.ns, c.dev) THEN Fail(o, ErrNoDev)
           ELSE LET l == TheLink(o, c.ns, c.dev)
                IN Ok(SetLink(o, l, [l EXCEPT !.up = TRUE]))
      [] c.op = "addr_add" ->         \* [ip netns exec <ns>] ip addr add <addr> dev <dev>
           IF ~NsOk(o, c.ns) THEN Fail(o, ErrNoNs)
           ELSE IF ~HasLink(o, c.ns, c.dev) THEN Fail(o, ErrNoDev)
           ELSE LET l == TheLink(o, c.ns, c.dev) IN
                IF c.addr \in l.addrs THEN Fail(o, ErrAssigned)
                ELSE Ok(SetLink(o, l, [l EXCEPT !.addrs = @ \cup {c.addr}]))
      [] c.op = "netns_add" ->        \* ip netns add <ns>
           IF c.ns \in o.netns THEN Fail(o, ErrNsExists)
           ELSE Ok([o EXCEPT !.netns = @ \cup {c.ns},
                             !.links = @ \cup {Link(c.ns, "lo", "lo", "")}])
      [] c.op = "veth_add" ->         \* ip link add <dev> type veth peer name <peer>
           IF ~ValidIfname(c.dev) \/ ~ValidIfname(c.peer) THEN Fail(o, ErrBadName)
           ELSE IF HasLink(o, HostNS, c.dev) \/ HasLink(o, HostNS, c.peer)
           THEN Fail(o, ErrRtExists)
           ELSE Ok([o EXCEPT !.links = @ \cup
                      {Link(HostNS, c.dev, "veth", c.dev),
                       Link(HostNS, c.peer, "veth", c.dev)}])
      [] c.op = "set_master" ->       \* ip link set <dev> master <master>
           IF ~HasLink(o, HostNS, c.dev) \/ ~HasLink(o, HostNS, c.master)
           THEN Fail(o, ErrNoDev)
           ELSE LET l == TheLink(o, HostNS, c.dev)
                IN Ok(SetLink(o, l, [l EXCEPT !.master = c.master]))
      [] c.op = "link_netns" ->       \* ip link set <dev> netns <ns>
           IF ~HasLink(o, HostNS, c.dev) THEN Fail(o, ErrNoDev)
           ELSE IF c.ns \notin o.netns THEN Fail(o, ErrBadNs)
           ELSE IF HasLink(o, c.ns, c.dev) THEN Fail(o, ErrRtExists)
           ELSE LET l == TheLink(o, HostNS, c.dev)
                IN Ok(SetLink(o, l, [l EXCEPT !.ns = c.ns, !.up = FALSE,
                                              !.addrs = {}, !.master = ""]))
      [] c.op = "route_default" ->    \* ip netns exec <ns> ip route add default via <via>
           IF ~NsOk(o, c.ns) THEN Fail(o, ErrNoNs)
           ELSE IF ~Reachable(o, c.ns, c.via) THEN Fail(o, ErrBadGw)
           ELSE IF \E r \in o.defrt : r.ns = c.ns THEN Fail(o, ErrRtExists)
           ELSE Ok([o EXCEPT !.defrt = @ \cup {[ns |-> c.ns, via |-> c.via]}])
      [] c.op = "route_dev" ->        \* ip route add <dst> dev <dev>
           IF ~HasLink(o, HostNS, c.dev) THEN Fail(o, ErrNoDev)
           ELSE IF NetworkAddress(c.dst) # c.dst.oct THEN Fail(o, ErrBadPrefix)
           ELSE IF ~TheLink(o, HostNS, c.dev).up THEN Fail(o, ErrNetDown)
           ELSE IF \E r \in o.hostrt : r.dst = c.dst THEN Fail(o, ErrRtExists)
           ELSE Ok([o EXCEPT !.hostrt = @ \cup {[dst |-> c.dst, dev |-> c.dev]}])
      [] c.op = "sysctl_forward" ->   \* sysctl -w net.ipv4.ip_forward=1
           Ok([o EXCEPT !.forward = TRUE])
      [] c.op = "nat_append" ->       \* iptables -t nat -A POSTROUTING ... -j MASQUERADE
           Ok([o EXCEPT !.nat = Append(@, [src |-> c.src, out |-> c.out])])
      [] c.op = "fwd_append" ->       \* iptables -A FORWARD ...
           Ok([o EXCEPT !.fwd = Append(@, [inif |-> c.inif, out |-> c.out,
                                           state |-> c.state])])
      [] c.op = "filter_append" ->    \* ip netns exec <ns> iptables -A INPUT ...
           IF ~NsOk(o, c.ns) THEN Fail(o, ErrNoNs)
           ELSE Ok([o EXCEPT !.filt = Append(@, [ns |-> c.ns, proto |-> c.proto,
                                  port |-> c.port, target |-> c.target])])
      [] c.op = "netns_del" ->        \* ip netns del <ns>
           IF c.ns \notin o.netns THEN Fail(o, ErrNoFile)
           ELSE Ok(DelNetns(o, c.ns))
      [] c.op = "link_del" ->         \* ip link del <dev>
           IF ~HasLink(o, HostNS, c.dev) THEN Fail(o, ErrNoDev)
           ELSE Ok(DelLink(o, c.dev))
      [] c.op = "nat_delete" ->       \* iptables -t nat -D POSTROUTING ... -j MASQUERADE
           LET rule == [src |-> c.src, out |-> c.out]
               hits == {i \in 1..Len(o.nat) : o.nat[i] = rule}
           IN IF hits = {} THEN Fail(o, ErrBadRule)
              ELSE Ok([o EXCEPT !.nat =
                         SeqRemove(@, CHOOSE i \in hits : \A j \in hits : i <= j)])
      [] c.op = "web" ->              \* ip netns exec <ns> sh -c '... http.server ... &'
           IF ~NsOk(o, c.ns) THEN Fail(o, ErrNoNs)
           ELSE IF \E l \in o.links : l.ns = c.ns /\ \E a \in l.addrs : a.oct = c.ip
           THEN Ok([o EXCEPT !.procs = @ \cup
                      {[ns |-> c.ns, ip |-> c.ip, port |-> c.port]}])
           ELSE Ok(o)                 \* the detached server fails to bind and exits
      [] c.op = "netns_list" ->       \* ip netns list
           Ok(o)
      [] c.op = "bridge_list" ->      \* ip link show type bridge
           Ok(o)

-----------------------------------------------------------------------------
(* class VPC: objects, the record store *)

\* VPC.__init__
VPC(name, cidr) ==
    [name |-> name, cidr |-> cidr, bridge |-> "vpc-" \o name, subnets |-> <<>>]

NoVPC == VPC("", Cidr(0, 0, 0, 0, 0))

WriteFile(st, stem, doc) ==
    [x \in DOMAIN st \cup {stem} |-> IF x = stem THEN doc ELSE st[x]]

RemoveFile(st, stem) == [x \in DOMAIN st \ {stem} |-> st[x]]

EmptyDir == [x \in {} |-> NoFile]

\* the JSON document save_config writes for a VPC object
ConfigOf(vpc) ==
    [name |-> vpc.name, cidr |-> vpc.cidr, bridge |-> vpc.bridge,
     subnets |-> vpc.subnets]

\* variant: a save that keeps the subnets of the file it replaces
save_config_Merge(st, vpc) ==
    LET old == IF vpc.name \in DOMAIN st THEN st[vpc.name].subnets ELSE <<>>
        Fresh(item) == ~DictHas(vpc.subnets, item.k)
    IN WriteFile(st, vpc.name,
                 [ConfigOf(vpc) EXCEPT !.subnets = SelectSeq(old, Fresh) \o @])

\* VPC.save_config on the store: the file <name>.json is overwritten whole
save_config(st, vpc) == WriteFile(st, vpc.name, ConfigOf(vpc))

\* variant: a load that builds an empty object when the file is missing
load_Lenient(st, name) ==
    IF name \notin DOMAIN st
    THEN [exc |-> "", vpc |-> VPC(name, Cidr(10, 0, 0, 0, 16))]
    ELSE [exc |-> "",
          vpc |-> [VPC(st[name].name, st[name].cidr) EXCEPT
                     !.subnets = st[name].subnets]]

\* VPC.load: the exception raised, or the object built from the file
load(st, name) ==
    IF name \notin DOMAIN st
    THEN [exc |-> "FileNotFoundError", vpc |-> NoVPC]
    ELSE LET config == st[name]
         IN [exc |-> "",
             vpc |-> [VPC(config.name, config.cidr) EXCEPT
                        !.subnets = config.subnets]]

-----------------------------------------------------------------------------
(* One CLI process: a handler is the sequence of its statements *)

Cmd(c, f)          == [k |-> "run_cmd", c |-> c, f |-> f]
RaiseIf(cond, exc) == [k |-> "raise", cond |-> cond, exc |-> exc]
PutSubnet(key, e)  == [k |-> "put", key |-> key, entry |-> e]
SaveConfigStmt     == [k |-> "save_config"]
Unlink             == [k |-> "unlink"]
LogError(msg)      == [k |-> "error", msg |-> msg]
PrintOut(val)      == [k |-> "print", val |-> val]
WriteJson(stem, doc) == [k |-> "json.dump", stem |-> stem, doc |-> doc]

\* The running state of the process.
\* issued: the run_cmd calls made so far, each with its command, the exit
\* code and whether the call raised.
\* faults: the commands of this run that the environment makes fail, as a
\* set of <<position, kind>>; kind "sig" fails with a stderr that carries a
\* tolerated signature, kind "other" with one that carries none.  A fault at
\* the position of the record write stands for the process being stopped
\* before it.
Start(o, st, self, faults) ==
    [os |-> o, store |-> st, vpc |-> self, issued |-> <<>>, exc |-> "",
     errlog |-> <<>>, warns |-> 0, out |-> <<>>, faults |-> faults]

FaultAt(w) == {f[2] : f \in {g \in w.faults : g[1] = Len(w.issued) + 1}}

\* run_cmd(cmd, flags) as a statement of the handler
Do(w, c, f) ==
    LET r == IF "other" \in FaultAt(w) THEN Fail(w.os, ErrPerm)
             ELSE IF "sig" \in FaultAt(w) THEN Fail(w.os, ErrNoDev)
             ELSE Exec(w.os, c)
        res == run_cmd(r.rc, r.err, f)
    IN [w EXCEPT
          !.os     = r.os,
          !.issued = Append(@, [c |-> c, rc |-> r.rc, raised |-> res.raised]),
          !.warns  = IF res.warn # "" THEN @ + 1 ELSE @,
          !.exc    = IF res.raised THEN "CalledProcessError" ELSE @,
          !.errlog = IF res.raised THEN Append(@, "Command failed") ELSE @]

\* variant: statements keep running after an exception
Stmt_NoStop(w, s) ==
    CASE s.k = "run_cmd" -> Do(w, s.c, s.f)
      [] s.k = "raise" -> IF s.cond THEN [w EXCEPT !.exc = s.exc] ELSE w
      [] s.k = "put" ->
           [w EXCEPT !.vpc.subnets = DictPut(@, s.key, s.entry)]
      [] s.k = "save_config" ->
           IF FaultAt(w) # {} THEN [w EXCEPT !.exc = "Interrupted"]
           ELSE [w EXCEPT !.store = save_config(@, w.vpc)]
      [] s.k = "unlink" ->
           [w EXCEPT !.store = IF w.vpc.name \in DOMAIN @
                               THEN RemoveFile(@, w.vpc.name) ELSE @]
      [] s.k = "error" -> [w EXCEPT !.errlog = Append(@, s.msg)]
      [] s.k = "print" -> [w EXCEPT !.out = s.val]
      [] s.k = "json.dump" ->
           [w EXCEPT !.store = WriteFile(@, s.stem, s.doc)]

\* one statement; nothing runs once an exception is propagating
Stmt(w, s) ==
    IF w.exc # "" THEN w
    ELSE CASE s.k = "run_cmd" -> Do(w, s.c, s.f)
           [] s.k = "raise" -> IF s.cond THEN [w EXCEPT !.exc = s.exc] ELSE w
           [] s.k = "put" ->
                [w EXCEPT !.vpc.subnets = DictPut(@, s.key, s.entry)]
           [] s.k = "save_config" ->
                IF FaultAt(w) # {} THEN [w EXCEPT !.exc = "Interrupted"]
                ELSE [w EXCEPT !.store = save_config(@, w.vpc)]
           [] s.k = "unlink" ->
                [w EXCEPT !.store = IF w.vpc.name \in DOMAIN @
                                    THEN RemoveFile(@, w.vpc.name) ELSE @]
           [] s.k = "error" -> [w EXCEPT !.errlog = Append(@, s.msg)]
           [] s.k = "print" -> [w EXCEPT !.out = s.val]
           [] s.k = "json.dump" ->
                [w EXCEPT !.store = WriteFile(@, s.stem, s.doc)]

RECURSIVE RunFrom(_, _, _)
\* the statements of a handler in order, from statement i on
RunFrom(w, prog, i) ==
    IF i > Len(prog) THEN w ELSE RunFrom(Stmt(w, prog[i]), prog, i + 1)

-----------------------------------------------------------------------------
(* class VPC: the operations *)

\* VPC.create
create(self) ==
    << Cmd([op |-> "br_add", dev |-> self.bridge], IgnoreExists),
       Cmd([op |-> "link_up", ns |-> HostNS, dev |-> self.bridge], Default),
       RaiseIf(IPRaises(self.cidr), "ValueError"),
       Cmd([op |-> "addr_add", ns |-> HostNS, dev |-> self.bridge,
            addr |-> [oct |-> get_gateway_ip(self.cidr), len |-> self.cidr.len]],
           IgnoreExists),
       SaveConfigStmt >>

\* subnet_name[:10]
LongPrefix == [s \in {"application1"} |-> "applicatio"]

Prefix10(s) == IF Len(s) <= 10 THEN s ELSE LongPrefix[s]

\* VPC.add_subnet
add_subnet(self, subnet_name, cidr, subnet_type) ==
    LET ns_name   == self.name \o "-" \o subnet_name
        veth_host == "veth-" \o subnet_name
        veth_ns   == "v" \o Prefix10(subnet_name)
        subnet_ip == get_subnet_ip(cidr)
    IN << Cmd([op |-> "netns_add", ns |-> ns_name], IgnoreExists),
          Cmd([op |-> "veth_add", dev |-> veth_host, peer |-> veth_ns],
              IgnoreExists),
          Cmd([op |-> "set_master", dev |-> veth_host, master |-> self.bridge],
              IgnoreExists),
          Cmd([op |-> "link_up", ns |-> HostNS, dev |-> veth_host], IgnoreExists),
          Cmd([op |-> "link_netns", dev |-> veth_ns, ns |-> ns_name],
              IgnoreExists),
          RaiseIf(IPRaises(cidr), "ValueError"),
          Cmd([op |-> "addr_add", ns |-> ns_name, dev |-> veth_ns,
               addr |-> subnet_ip], IgnoreExists),
          Cmd([op |-> "link_up", ns |-> ns_name, dev |-> veth_ns], IgnoreExists),
          Cmd([op |-> "link_up", ns |-> ns_name, dev |-> "lo"], IgnoreExists),
          RaiseIf(IPRaises(self.cidr), "ValueError"),
          Cmd([op |-> "route_default", ns |-> ns_name,
               via |-> get_gateway_ip(self.cidr)], IgnoreExists),
          PutSubnet(subnet_name,
                    [cidr |-> cidr, type |-> subnet_type, namespace |-> ns_name,
                     veth_host |-> veth_host, ip |-> subnet_ip]),
          SaveConfigStmt >>

\* VPC.enable_nat
enable_nat(self, internet_interface) ==
    << Cmd([op |-> "sysctl_forward"], Default),
       Cmd([op |-> "nat_append", src |-> self.cidr, out |-> internet_interface],
           Default),
       Cmd([op |-> "fwd_append", inif |-> self.bridge,
            out |-> internet_interface, state |-> ""], Default),
       Cmd([op |-> "fwd_append", inif |-> internet_interface,
            out |-> self.bridge, state |-> "RELATED,ESTABLISHED"], Default) >>

\* variant: the action word is compared as written
Upper_Verbatim(a) == a

\* str.upper() on the action words a policy may carry
Upper(a) ==
    CASE a = "allow" -> "ALLOW"
      [] a = "deny"  -> "DENY"
      [] a = "Deny"  -> "DENY"
      [] a = "log"   -> "LOG"

\* VPC.apply_firewall, on the parsed policy document
apply_firewall(self, policy) ==
    LET matches == {i \in 1..Len(self.subnets) :
                        self.subnets[i].v.cidr = policy.subnet}
        first   == CHOOSE i \in matches : \A j \in matches : i <= j
        ns_name == self.subnets[first].v.namespace
        Known(rule) == Upper(rule.action) \in {"ALLOW", "DENY"}
        rules   == SelectSeq(policy.ingress, Known)
    IN IF matches = {} THEN << LogError("Subnet not found") >>
       ELSE [i \in 1..Len(rules) |->
               Cmd([op |-> "filter_append", ns |-> ns_name,
                    proto |-> rules[i].protocol, port |-> rules[i].port,
                    target |-> IF Upper(rules[i].action) = "ALLOW"
                               THEN "ACCEPT" ELSE "DROP"], Default)]

\* VPC.deploy_webserver
deploy_webserver(self, subnet_name, port) ==
    IF ~DictHas(self.subnets, subnet_name)
    THEN << LogError("Subnet not found") >>
    ELSE LET info == DictGet(self.subnets, subnet_name)
         IN << RaiseIf(IPRaises(info.cidr), "ValueError"),
               Cmd([op |-> "web", ns |-> info.namespace,
                    ip |-> get_subnet_ip(info.cidr).oct, port |-> port],
                   Default) >>

\* VPC.delete
delete(self) ==
    [i \in 1..Len(self.subnets) |->
        Cmd([op |-> "netns_del", ns |-> self.subnets[i].v.namespace], NoCheck)]
    \o << Cmd([op |-> "link_del", dev |-> self.bridge], NoCheck),
          Cmd([op |-> "nat_delete", src |-> self.cidr, out |-> "eth0"], NoCheck),
          Unlink >>

\* VPC.show: the report, as the values it prints
show(self) ==
    << PrintOut(
         [name |-> self.name, cidr |-> self.cidr, bridge |-> self.bridge,
          subnets |-> [i \in 1..Len(self.subnets) |->
                         [name      |-> self.subnets[i].k,
                          type      |-> self.subnets[i].v.type,
                          cidr      |-> self.subnets[i].v.cidr,
                          namespace |-> self.subnets[i].v.namespace,
                          ip        |-> self.subnets[i].v.ip]]]) >>

-----------------------------------------------------------------------------
(* main(): the CLI dispatch *)

\* fix-connectivity: the body of the first loop, for one subnet
FixSubnet(vpc, info, gateway_ip) ==
    LET ns_name   == info.namespace
        subnet_ip == info.ip
        veth_host == "veth-" \o ns_name
        veth_ns   == "veth-" \o ns_name \o "-ns"
    IN << Cmd([op |-> "veth_add", dev |-> veth_host, peer |-> veth_ns],
              IgnoreExists),
          Cmd([op |-> "link_netns", dev |-> veth_ns, ns |-> ns_name],
              IgnoreErrors),
          Cmd([op |-> "set_master", dev |-> veth_host, master |-> vpc.bridge],
              IgnoreExists),
          Cmd([op |-> "link_up", ns |-> HostNS, dev |-> veth_host], IgnoreErrors),
          Cmd([op |-> "link_up", ns |-> ns_name, dev |-> veth_ns], IgnoreErrors),
          Cmd([op |-> "addr_add", ns |-> ns_name, dev |-> veth_ns,
               addr |-> subnet_ip], IgnoreExists),
          Cmd([op |-> "route_default", ns |-> ns_name, via |-> gateway_ip],
              IgnoreExists) >>

FixLen == 7    \* run_cmd calls per subnet in the first loop of fix-connectivity

\* main(), command fix-connectivity, after VPC.load
fix_connectivity(vpc) ==
    LET gateway_ip == get_gateway_ip(vpc.cidr)
        n == Len(vpc.subnets)
    IN << RaiseIf(IPRaises(vpc.cidr), "ValueError"),
          Cmd([op |-> "link_up", ns |-> HostNS, dev |-> vpc.bridge], IgnoreErrors),
          Cmd([op |-> "addr_add", ns |-> HostNS, dev |-> vpc.bridge,
               addr |-> [oct |-> gateway_ip, len |-> 32]], IgnoreExists) >>
       \o [j \in 1..(FixLen * n) |->
             FixSubnet(vpc, vpc.subnets[((j - 1) \div FixLen) + 1].v,
                       gateway_ip)[((j - 1) % FixLen) + 1]]
       \o [i \in 1..n |->
             Cmd([op |-> "route_dev", dst |-> vpc.subnets[i].v.cidr,
                  dev |-> vpc.bridge], IgnoreExists)]

-----------------------------------------------------------------------------
(* main(): the commands that read the live state *)

\* every VPC and subnet name the model uses, for reading a namespace name
\* "<vpc>-<subnet>" back into its parts
AllVpcNames    == {"vpc1", "vpc2", "dev", "my-vpc"}
AllSubnetNames == {"web", "db", "public"}

\* what split('-') can give for the namespace names of those: a first part,
\* which holds no '-', and the rest joined again
Heads == {"vpc1", "vpc2", "dev", "my"}
Rests == AllSubnetNames \cup {"vpc-" \o sn : sn \in AllSubnetNames}

Item(key, val) == [k |-> key, v |-> val]

\* ns_name.split('-'): parts[0] and '-'.join(parts[1:])
SplitDash(ns_name) ==
    CHOOSE p \in Heads \X Rests : p[1] \o "-" \o p[2] = ns_name

\* '-public' in ns_name or '-private' in ns_name
NamesType(ns_name) == SplitDash(ns_name)[2] \in {"public", "private"}

\* 'vpc-' in line, for the line of a bridge
VpcConvention(bridge_name) == \E v \in AllVpcNames : bridge_name = "vpc-" \o v

RECURSIVE Listing(_)
\* the lines of a listing: the names in the one order the system lists them
Listing(S) ==
    IF S = {} THEN <<>>
    ELSE LET x == CHOOSE y \in S : TRUE IN <<x>> \o Listing(S \ {x})

\* ip netns list, as the names on its lines
NetnsList(o) == Listing(o.netns)

\* ip link show type bridge, as the names of the lines that carry 'vpc-'
BridgeList(o) ==
    Listing({l.name : l \in {x \in o.links : /\ x.ns = HostNS
                                               /\ x.kind = "bridge"
                                               /\ VpcConvention(x.name)}})

\* main(), command diagnose; the listings do not change while it runs
diagnose(o, st) ==
    LET namespaces == NetnsList(o)
        bridges    == BridgeList(o)
        vpcs       == DOMAIN st
    IN << Cmd([op |-> "netns_list"], CaptureOut),
          Cmd([op |-> "bridge_list"], CaptureOut),
          PrintOut([namespaces |-> namespaces, bridges |-> bridges,
                    orphan |-> namespaces # <<>> /\ vpcs = {}]) >>

\* main(), command cleanup-orphans; deleting namespaces removes no bridge,
\* so the bridge listing is the one of the state the command started in
cleanup_orphans(o) ==
    LET doomed  == SelectSeq(NetnsList(o), NamesType)
        bridges == BridgeList(o)
    IN << Cmd([op |-> "netns_list"], CaptureOut) >>
       \o [i \in 1..Len(doomed) |->
             Cmd([op |-> "netns_del", ns |-> doomed[i]], IgnoreErrors)]
       \o << Cmd([op |-> "bridge_list"], CaptureOut) >>
       \o [i \in 1..Len(bridges) |->
             Cmd([op |-> "link_del", dev |-> bridges[i]], IgnoreErrors)]

RECURSIVE Group(_, _, _)
\* recover, first loop: vpcs[vpc_name].append((subnet_name, ns_name))
Group(namespaces, i, vpcs) ==
    IF i > Len(namespaces) THEN vpcs
    ELSE LET p    == SplitDash(namespaces[i])
             have == IF DictHas(vpcs, p[1]) THEN DictGet(vpcs, p[1]) ELSE <<>>
         IN Group(namespaces, i + 1,
                  DictPut(vpcs, p[1], Append(have, <<p[2], namespaces[i]>>)))

HashMod == 254    \* hash(vpc_name) % 254

\* recover: the range given to a VPC name; seed[vpc_name] is
\* hash(vpc_name) % HashMod in this process
RecoverCidr(vpc_name, seed) ==
    IF vpc_name = "dev" THEN Cidr(10, 0, 0, 0, 16)
    ELSE IF vpc_name = "prod" THEN Cidr(10, 1, 0, 0, 16)
    ELSE IF vpc_name = "test" THEN Cidr(10, 2, 0, 0, 16)
    ELSE Cidr(10, seed[vpc_name] % HashMod, 0, 0, 16)

\* recover: the document written for one VPC name
RecoverConfig(vpc_name, subnets, seed) ==
    LET second == IF vpc_name = "dev" THEN 0 ELSE IF vpc_name = "prod" THEN 1 ELSE 2
    IN [name |-> vpc_name, cidr |-> RecoverCidr(vpc_name, seed),
        subnets |-> [j \in 1..Len(subnets) |->
                       Item(subnets[j][1],
                            [cidr |-> Cidr(10, second, j, 0, 24),
                             type |-> IF subnets[j][1] = "public"
                                      THEN "public" ELSE "private",
                             namespace |-> subnets[j][2],
                             ip |-> Cidr(10, second, j, 10, 24)])]]

\* main(), command recover
recover(o, seed) ==
    LET vpcs == Group(NetnsList(o), 1, <<>>)
    IN << Cmd([op |-> "netns_list"], CaptureOut) >>
       \o [i \in 1..Len(vpcs) |->
             WriteJson(vpcs[i].k, RecoverConfig(vpcs[i].k, vpcs[i].v, seed))]

\* the commands that take no VPC name
Global == {"diagnose", "cleanup-orphans", "recover"}

\* main(): one invocation "vpcctl <cmd> <args>" against the OS state o and
\* the store st; the final running state of the process
Main(cmd, a, o, st, faults) ==
    LET got  == load(st, a.vpc)
        self == IF cmd \in Global THEN NoVPC
                ELSE IF cmd = "create" THEN VPC(a.vpc, a.cidr) ELSE got.vpc
        prog == CASE cmd = "create"       -> create(self)
                  [] cmd = "add-subnet"   -> add_subnet(self, a.subnet, a.cidr, a.type)
                  [] cmd = "enable-nat"   -> enable_nat(self, a.iface)
                  [] cmd = "apply-policy" -> apply_firewall(self, a.policy)
                  [] cmd = "deploy-web"   -> deploy_webserver(self, a.subnet, a.port)
                  [] cmd = "show"         -> show(self)
                  [] cmd = "delete"       -> delete(self)
                  [] cmd = "fix-connectivity" -> fix_connectivity(self)
                  [] cmd = "diagnose"        -> diagnose(o, st)
                  [] cmd = "cleanup-orphans" -> cleanup_orphans(o)
                  [] cmd = "recover"         -> recover(o, a.seed)
    IN IF cmd \notin Global \cup {"create"} /\ got.exc # ""
       THEN [Start(o, st, self, faults) EXCEPT !.exc = got.exc]
       ELSE RunFrom(Start(o, st, self, faults), prog, 1)

\* the "except Exception" clause of main() and the process exit code
ExitCode(w) == IF w.exc # "" THEN 1 ELSE 0

ErrLog(w) ==
    IF w.exc \notin {"", "Interrupted"} THEN Append(w.errlog, "Operation failed")
    ELSE w.errlog

-----------------------------------------------------------------------------
(* The state machine: one action per CLI command *)

NoCall == [rc |-> 0, stderr |-> ErrNone, flags |-> Default, done |-> FALSE,
           raised |-> FALSE, warn |-> "", ret |-> ""]

\* a process that has not started
Idle == [pc |-> 0, args |-> <<>>, vpc |-> NoVPC, exc |-> "", seen |-> {},
         rank |-> 0]

Procs == {1, 2}

NoProcs == [p \in Procs |-> Idle]

NoCalc == [cidr |-> Cidr(0, 0, 0, 0, 0), done |-> FALSE, raised |-> FALSE,
           gateway |-> <<>>, ip |-> <<>>]

InitLast ==
    [cmd |-> "", args |-> <<>>, exit |-> 0, exc |-> "", issued |-> <<>>,
     errlog |-> <<>>, warns |-> 0, out |-> <<>>, faults |-> {},
     retry |-> "", ideal |-> <<>>]

Init ==
    /\ os = InitOS
    /\ store = EmptyDir
    /\ last = InitLast
    /\ faulty = 0
    /\ mem = NoVPC
    /\ saved = EmptyDir
    /\ loaded = NoVPC
    /\ call = NoCall
    /\ proc = NoProcs
    /\ calc = NoCalc

\* whether this invocation repeats the one before it, and that one either
\* stopped on an error or ran undisturbed
IsRetry(cmd, a) ==
    /\ last.cmd = cmd
    /\ last.args = a
    /\ (last.exc # "" \/ last.faults = {})

\* the state an undisturbed run of the invocation leads to; a retry keeps
\* the one of the invocation it repeats
Ideal(cmd, a) ==
    IF cmd # "add-subnet" THEN <<>>
    ELSE IF IsRetry(cmd, a) THEN last.ideal
    ELSE LET w == Main(cmd, a, os, store, {})
         IN [os |-> w.os, store |-> w.store, exit |-> ExitCode(w)]

\* the process ran to its end: its effects and what it reported
Commit(cmd, a, w) ==
    /\ os' = w.os
    /\ store' = w.store
    /\ last' = [cmd |-> cmd, args |-> a, exit |-> ExitCode(w), exc |-> w.exc,
                issued |-> w.issued, errlog |-> ErrLog(w), warns |-> w.warns,
                out |-> w.out, faults |-> w.faults,
                retry |-> IF cmd # "add-subnet" \/ ~IsRetry(cmd, a) THEN ""
                          ELSE IF last.exc # "" THEN "interrupted"
                          ELSE "complete",
                ideal |-> Ideal(cmd, a)]
    /\ faulty' = IF w.faults = {} THEN faulty ELSE faulty + 1
    /\ UNCHANGED <<mem, saved, loaded, call, proc, calc>>

Run(cmd, a, faults) == Commit(cmd, a, Main(cmd, a, os, store, faults))

\* the environment disturbs at most MaxFaultyRuns runs
Allowed(faults) == faults # {} => faulty < MaxFaultyRuns

\* at most one failing command per run, at a position up to n, or the
\* process stopped before its record write at position n + 1
OneFault(n) ==
    {{}} \cup {{<<k, kind>>} : k \in 1..n, kind \in {"sig", "other"}}
         \cup {{<<n + 1, "other">>}}

Create(v, c, faults) ==
    /\ Allowed(faults)
    /\ Run("create", [vpc |-> v, cidr |-> c], faults)

AddSubnet(v, sn, c, t, faults) ==
    /\ Allowed(faults)
    /\ Run("add-subnet", [vpc |-> v, subnet |-> sn, cidr |-> c, type |-> t],
           faults)

\* the add-subnet invocations tried: <<name, cidr, type>>
SubnetArgs ==
    {<<"web", Cidr(10, 5, 1, 0, 24), "public">>,
     <<"db", Cidr(10, 5, 2, 77, 24), "private">>}

Rule(port, protocol, action) ==
    [port |-> port, protocol |-> protocol, action |-> action]

\* the policy documents tried
Policies ==
    {[subnet |-> c, ingress |-> r] :
        c \in {Cidr(10, 5, 1, 0, 24), Cidr(10, 9, 9, 0, 24)},
        r \in {<<Rule(80, "tcp", "allow")>>,
               <<Rule(22, "tcp", "log"), Rule(22, "tcp", "Deny")>>}}

Ports == {8000}

\* any combination of failing teardown commands of a delete
TeardownFaults(v) ==
    IF v \notin DOMAIN store THEN {{}}
    ELSE SUBSET {<<k, "other">> : k \in 1..(Len(store[v].subnets) + 2)}

\* what enable-nat, apply-policy and deploy-web have installed
Installed(o) == Len(o.nat) + Len(o.filt) + Cardinality(o.procs)

EnableNat(v, i, faults) ==
    /\ Allowed(faults)
    /\ Installed(os) < MaxRules
    /\ Len(os.fwd) < 2 * MaxRules
    /\ Run("enable-nat", [vpc |-> v, iface |-> i], faults)

ApplyPolicy(v, p, faults) ==
    /\ Allowed(faults)
    /\ Installed(os) < MaxRules
    /\ Run("apply-policy", [vpc |-> v, policy |-> p], faults)

DeployWeb(v, sn, port, faults) ==
    /\ Allowed(faults)
    /\ Installed(os) < MaxRules
    /\ Run("deploy-web", [vpc |-> v, subnet |-> sn, port |-> port], faults)

Show(v) ==
    /\ Allowed({})
    /\ Run("show", [vpc |-> v], {})

Delete(v, faults) ==
    /\ Allowed(faults)
    /\ Run("delete", [vpc |-> v], faults)

FixConnectivity(v, faults) ==
    /\ Allowed(faults)
    /\ Run("fix-connectivity", [vpc |-> v], faults)

\* The lifecycle commands, with failures injected by the environment
Next ==
    \/ \E v \in VpcNames, c \in VpcCidrs, f \in OneFault(3) : Create(v, c, f)
    \/ \E v \in VpcNames, sa \in SubnetArgs, f \in OneFault(9) :
          AddSubnet(v, sa[1], sa[2], sa[3], f)
    \/ \E v \in VpcNames : Show(v)
    \/ \E v \in VpcNames : \E f \in TeardownFaults(v) : Delete(v, f)

Spec == Init /\ [][Next]_vars

\* Every command that works on a VPC, each run undisturbed
NextOps ==
    \/ \E v \in VpcNames, c \in VpcCidrs : Create(v, c, {})
    \/ \E v \in VpcNames, sa \in SubnetArgs :
          AddSubnet(v, sa[1], sa[2], sa[3], {})
    \/ \E v \in VpcNames, i \in Ifaces : EnableNat(v, i, {})
    \/ \E v \in VpcNames, p \in Policies : ApplyPolicy(v, p, {})
    \/ \E v \in VpcNames, sn \in SubnetNames, port \in Ports :
          DeployWeb(v, sn, port, {})
    \/ \E v \in VpcNames : Show(v)
    \/ \E v \in VpcNames : Delete(v, {})
    \/ \E v \in VpcNames : FixConnectivity(v, {})

SpecOps == Init /\ [][NextOps]_vars

-----------------------------------------------------------------------------
(* Reconciliation: diagnose, cleanup-orphans and recover, over two VPCs *)

Recover(seed) ==
    /\ Allowed({})
    /\ Run("recover", [seed |-> seed], {})

Diagnose ==
    /\ Allowed({})
    /\ Run("diagnose", [none |-> ""], {})

CleanupOrphans ==
    /\ Allowed({})
    /\ Run("cleanup-orphans", [none |-> ""], {})

\* the create invocations tried: <<name, cidr>>
RecVpcArgs == {<<"dev", Cidr(10, 0, 0, 0, 16)>>, <<"vpc1", Cidr(10, 5, 0, 0, 16)>>}

\* the add-subnet invocations tried: <<vpc, name, cidr, type>>; the last
\* one re-adds a subnet name with another range
RecSubnetArgs ==
    {<<"dev", "public", Cidr(10, 0, 1, 0, 24), "public">>,
     <<"vpc1", "web", Cidr(10, 5, 1, 0, 24), "public">>,
     <<"vpc1", "web", Cidr(10, 5, 2, 77, 24), "private">>}

\* hash(vpc_name), for the names recover has no fixed range for
HashValues == {5, 77}
Seeds == [{"vpc1", "my"} -> HashValues]

\* the process stopped before the record write of create
StoppedBeforeSave == {{}, {<<4, "other">>}}

\* the first teardown command of a delete fails
DeleteFaults == {{}, {<<1, "other">>}}

NextRec ==
    \/ \E va \in RecVpcArgs, f \in StoppedBeforeSave : Create(va[1], va[2], f)
    \/ \E sa \in RecSubnetArgs : AddSubnet(sa[1], sa[2], sa[3], sa[4], {})
    \/ \E va \in RecVpcArgs, f \in DeleteFaults : Delete(va[1], f)
    \/ \E seed \in Seeds : Recover(seed)
    \/ Diagnose
    \/ CleanupOrphans

SpecRec == Init /\ [][NextRec]_vars

-----------------------------------------------------------------------------
(* The record store on its own: save_config and load over VPC objects *)

Entry(v, sn, c, t) ==
    [cidr |-> c, type |-> t, namespace |-> v \o "-" \o sn,
     veth_host |-> "veth-" \o sn, ip |-> get_subnet_ip(c)]

\* an entry as a record written by recover carries it: no veth_host
RecoveredEntry(v, sn, c, t) ==
    [cidr |-> c, type |-> t, namespace |-> v \o "-" \o sn,
     ip |-> [oct |-> <<c.oct[1], c.oct[2], c.oct[3], 10>>, len |-> c.len]]

StoreNames == {"vpc1", "dev"}

\* subnet mappings of a VPC named v
SubnetMaps(v) ==
    LET web == Item("web", Entry(v, "web", Cidr(10, 5, 1, 0, 24), "public"))
        db  == Item("db", Entry(v, "db", Cidr(10, 5, 2, 77, 24), "private"))
        rec == Item("web", RecoveredEntry(v, "web", Cidr(10, 2, 1, 0, 24), "private"))
    IN {<<>>, <<web>>, <<web, db>>, <<db, web>>, <<rec>>}

ValidVPCs ==
    UNION {{[VPC(v, c) EXCEPT !.subnets = m] : m \in SubnetMaps(v)} :
              v \in StoreNames, c \in VpcCidrs}

InitStore ==
    /\ os = InitOS
    /\ store = EmptyDir
    /\ last = InitLast
    /\ faulty = 0
    /\ mem \in ValidVPCs
    /\ saved = EmptyDir
    /\ loaded = NoVPC
    /\ call = NoCall
    /\ proc = NoProcs
    /\ calc = NoCalc

\* the caller changes the object in memory without saving it
Mutate ==
    /\ mem' \in ValidVPCs
    /\ UNCHANGED <<os, store, last, faulty, saved, loaded, call, proc, calc>>

SaveConfig ==
    /\ store' = save_config(store, mem)
    /\ saved' = WriteFile(saved, mem.name, mem)
    /\ UNCHANGED <<os, last, faulty, mem, loaded, call, proc, calc>>

LoadConfig(name) ==
    /\ name \in DOMAIN store
    /\ loaded' = load(store, name).vpc
    /\ UNCHANGED <<os, store, last, faulty, mem, saved, call, proc, calc>>

NextStore == Mutate \/ SaveConfig \/ \E n \in StoreNames : LoadConfig(n)

SpecStore == InitStore /\ [][NextStore]_vars

-----------------------------------------------------------------------------
(* The executor on its own: one run_cmd call on any outcome and any flags *)

AllFlags ==
    {Flags(a, b, c, d, e) : a \in BOOLEAN, b \in BOOLEAN, c \in BOOLEAN,
                            d \in BOOLEAN, e \in BOOLEAN}

InitExec ==
    /\ os = InitOS
    /\ store = EmptyDir
    /\ last = InitLast
    /\ faulty = 0
    /\ mem = NoVPC
    /\ saved = EmptyDir
    /\ loaded = NoVPC
    /\ call \in {[NoCall EXCEPT !.rc = rc, !.stderr = e, !.flags = f] :
                    rc \in {0, 1, 2}, e \in StderrTexts, f \in AllFlags}
    /\ proc = NoProcs
    /\ calc = NoCalc

RunCmd ==
    /\ ~call.done
    /\ LET res == run_cmd(call.rc, call.stderr, call.flags)
       IN call' = [call EXCEPT !.done = TRUE, !.raised = res.raised,
                               !.warn = res.warn, !.ret = res.ret]
    /\ UNCHANGED <<os, store, last, faulty, mem, saved, loaded, proc, calc>>

NextExec == RunCmd

SpecExec == InitExec /\ [][NextExec]_vars

-----------------------------------------------------------------------------
(* Two add-subnet processes at once: main() loads the record, add_subnet
   issues its commands one by one and save_config writes the file, with no
   lock around any of it *)

\* the add_subnet statements of process p
ProgOf(p) ==
    add_subnet(proc[p].vpc, proc[p].args[1], proc[p].args[2], proc[p].args[3])

Finished(p) ==
    /\ proc[p].pc > 0
    /\ (proc[p].exc # "" \/ proc[p].pc > Len(ProgOf(p)))

\* how many processes have written the record so far
Saves == Cardinality({q \in Procs : proc[q].rank > 0})

\* VPC.load(args.name) of process p, started with the arguments sa
RaceLoad(p, v, sa) ==
    /\ proc[p].pc = 0
    /\ LET got == load(store, v)
       IN proc' = [proc EXCEPT ![p] =
                     [pc |-> 1, args |-> sa, vpc |-> got.vpc, exc |-> got.exc,
                      seen |-> {q \in Procs : proc[q].rank > 0}, rank |-> 0]]
    /\ UNCHANGED <<os, store, last, faulty, mem, saved, loaded, call, calc>>

\* the next statement of process p, on the OS and the store as they are now
RaceStep(p) ==
    /\ proc[p].pc > 0
    /\ ~Finished(p)
    /\ LET s == ProgOf(p)[proc[p].pc]
           w == Stmt(Start(os, store, proc[p].vpc, {}), s)
       IN /\ os' = w.os
          /\ store' = w.store
          /\ proc' = [proc EXCEPT ![p].pc = @ + 1, ![p].vpc = w.vpc,
                                  ![p].exc = w.exc,
                                  ![p].rank = IF s.k = "save_config"
                                              THEN Saves + 1 ELSE @]
    /\ UNCHANGED <<last, faulty, mem, saved, loaded, call, calc>>

\* the VPC is created before either process starts
RaceCreate(v, c) ==
    /\ \A p \in Procs : proc[p].pc = 0
    /\ Create(v, c, {})

NextRace ==
    \/ \E v \in VpcNames, c \in VpcCidrs : RaceCreate(v, c)
    \/ \E p \in Procs, v \in VpcNames, sa \in SubnetArgs : RaceLoad(p, v, sa)
    \/ \E p \in Procs : RaceStep(p)

SpecRace == Init /\ [][NextRace]_vars

-----------------------------------------------------------------------------
(* IPUtils on its own: both functions applied to one CIDR text *)

\* the octets and prefix lengths tried, in and out of range
AddrOctets == {0, 1, 10, 77, 255, 256}
AddrLens   == {0, 8, 9, 16, 23, 24, 31, 32, 33}

InitAddr ==
    /\ os = InitOS
    /\ store = EmptyDir
    /\ last = InitLast
    /\ faulty = 0
    /\ mem = NoVPC
    /\ saved = EmptyDir
    /\ loaded = NoVPC
    /\ call = NoCall
    /\ proc = NoProcs
    /\ calc \in {[NoCalc EXCEPT !.cidr = Cidr(a, b, c, d, n)] :
                    a \in AddrOctets, b \in AddrOctets, c \in AddrOctets,
                    d \in AddrOctets, n \in AddrLens}

\* IPUtils.get_gateway_ip(cidr) and IPUtils.get_subnet_ip(cidr)
Compute ==
    /\ ~calc.done
    /\ calc' = IF IPRaises(calc.cidr)
               THEN [calc EXCEPT !.done = TRUE, !.raised = TRUE]
               ELSE [calc EXCEPT !.done = TRUE,
                                 !.gateway = get_gateway_ip(calc.cidr),
                                 !.ip = get_subnet_ip(calc.cidr)]
    /\ UNCHANGED <<os, store, last, faulty, mem, saved, loaded, call, proc>>

NextAddr == Compute

SpecAddr == InitAddr /\ [][NextAddr]_vars

-----------------------------------------------------------------------------
(* NAT over the life of a VPC: enable-nat any number of times, then delete *)

EnableNatAgain(v, i) ==
    /\ Allowed({})
    /\ Len(os.fwd) < 2 * MaxNat
    /\ Run("enable-nat", [vpc |-> v, iface |-> i], {})

NextNat ==
    \/ \E v \in VpcNames, c \in VpcCidrs : Create(v, c, {})
    \/ \E v \in VpcNames, sa \in SubnetArgs :
          AddSubnet(v, sa[1], sa[2], sa[3], {})
    \/ \E v \in VpcNames, i \in Ifaces : EnableNatAgain(v, i)
    \/ \E v \in VpcNames : Delete(v, {})

SpecNat == Init /\ [][NextNat]_vars

-----------------------------------------------------------------------------
(* Firewall policies: apply-policy any number of times, with failures *)

\* the policy documents tried: up to three ingress rules, one of them with
\* an action the code does not know
FwPolicies ==
    {[subnet |-> c, ingress |-> r] :
        c \in {Cidr(10, 5, 1, 0, 24), Cidr(10, 5, 2, 77, 24), Cidr(10, 9, 9, 0, 24)},
        r \in {<<Rule(80, "tcp", "allow"), Rule(22, "tcp", "log"),
                 Rule(22, "tcp", "deny")>>,
               <<Rule(443, "tcp", "deny"), Rule(80, "tcp", "allow")>>}}

\* the packet-filter command at position 1 or 2 fails, or none does
FwFaults == {{}, {<<1, "other">>}, {<<2, "other">>}}

ApplyPolicyAgain(v, p, faults) ==
    /\ Allowed(faults)
    /\ Len(os.filt) < MaxFilt
    /\ Run("apply-policy", [vpc |-> v, policy |-> p], faults)

NextFw ==
    \/ \E v \in VpcNames, c \in VpcCidrs : Create(v, c, {})
    \/ \E v \in VpcNames, sa \in SubnetArgs :
          AddSubnet(v, sa[1], sa[2], sa[3], {})
    \/ \E v \in VpcNames, p \in FwPolicies, f \in FwFaults :
          ApplyPolicyAgain(v, p, f)

SpecFw == Init /\ [][NextFw]_vars

-----------------------------------------------------------------------------
(* Two VPCs side by side, with a subnet name in common *)

\* the create invocations tried: <<name, cidr>>
TwoVpcArgs == {<<"vpc1", Cidr(10, 5, 0, 0, 16)>>, <<"vpc2", Cidr(10, 6, 0, 0, 16)>>}

\* the add-subnet invocations tried: <<vpc, name, cidr, type>>
TwoSubnetArgs ==
    {<<"vpc1", "web", Cidr(10, 5, 1, 0, 24), "public">>,
     <<"vpc1", "db", Cidr(10, 5, 2, 0, 24), "private">>,
     <<"vpc2", "web", Cidr(10, 6, 1, 0, 24), "public">>}

NextTwo ==
    \/ \E va \in TwoVpcArgs : Create(va[1], va[2], {})
    \/ \E sa \in TwoSubnetArgs : AddSubnet(sa[1], sa[2], sa[3], sa[4], {})

SpecTwo == Init /\ [][NextTwo]_vars

-----------------------------------------------------------------------------
(* Records lost and rebuilt: VPCs are built, CONFIG_DIR is emptied behind
   the program's back, recover runs *)

\* the create invocations tried: <<name, cidr>>
LostVpcArgs == {<<"dev", Cidr(10, 0, 0, 0, 16)>>, <<"my-vpc", Cidr(10, 7, 0, 0, 16)>>}

\* the add-subnet invocations tried: <<vpc, name, cidr, type>>
LostSubnetArgs ==
    {<<"dev", "public", Cidr(10, 0, 1, 0, 24), "public">>,
     <<"dev", "db", Cidr(10, 0, 2, 0, 24), "private">>,
     <<"my-vpc", "web", Cidr(10, 7, 1, 0, 24), "public">>}

\* the environment removes every record file
LoseRecords ==
    /\ store # EmptyDir
    /\ store' = EmptyDir
    /\ UNCHANGED <<os, last, faulty, mem, saved, loaded, call, proc, calc>>

NextLost ==
    \/ \E va \in LostVpcArgs : Create(va[1], va[2], {})
    \/ \E sa \in LostSubnetArgs : AddSubnet(sa[1], sa[2], sa[3], sa[4], {})
    \/ LoseRecords
    \/ \E seed \in Seeds : Recover(seed)

SpecLost == Init /\ [][NextLost]_vars

-----------------------------------------------------------------------------
(* Properties *)

\* the commands of a run, replayed on an OS state: a command that exited
\* non-zero changed nothing
RECURSIVE Replay(_, _, _)
Replay(o, issued, i) ==
    IF i > Len(issued) THEN o
    ELSE Replay(IF issued[i].rc = 0 THEN Exec(o, issued[i].c).os ELSE o,
                issued, i + 1)

\* an address as a number, and the first host address of a range, by
\* arithmetic on the number
ToInt(oct) == ((oct[1] * 256 + oct[2]) * 256 + oct[3]) * 256 + oct[4]

IsFirstHost(ip, c) ==
    LET size == 2 ^ (32 - c.len)
    IN /\ ip.len = c.len
       /\ ToInt(ip.oct) = (ToInt(c.oct) \div size) * size + 1

\* the subnets of the persisted record of v
Recorded(st, v) == load(st, v).vpc.subnets

\* C1: a second create with the same name and range, after a first
\* successful one, completes without error provided each step that fails
\* does so with a tolerated signature (all three steps are tolerant), and the
\* record of that name exists afterwards.
C1_RepeatedCreateTolerated ==
    [][(/\ last.cmd = "create" /\ last.exit = 0
        /\ last'.cmd = "create" /\ last'.args = last.args
        /\ \A f \in last'.faults : f[2] = "sig")
       => (/\ last'.exit = 0
           /\ \A i \in 1..Len(last'.issued) : ~last'.issued[i].raised
           /\ last'.args.vpc \in DOMAIN store')]_vars

\* C1 case reached: a repeated create whose steps failed only with tolerated
\* signatures
C1_Witness ==
    /\ last.cmd = "create"
    /\ last.faults = {}
    /\ last.warns = 2
    /\ last.exit = 0

\* C2: delete on a VPC that has a record ends with exit code 0, the record
\* absent and a load of the name failing with FileNotFoundError, whichever
\* teardown commands fail; every teardown command is still issued.
C2_DeleteAlwaysRemovesRecord ==
    [][(last'.cmd = "delete" /\ last'.args.vpc \in DOMAIN store)
       => (/\ last'.exit = 0
           /\ last'.args.vpc \notin DOMAIN store'
           /\ load(store', last'.args.vpc).exc = "FileNotFoundError"
           /\ Len(last'.issued) = Len(store[last'.args.vpc].subnets) + 2)]_vars

\* C2 witness: a delete whose teardown commands failed, leaving a namespace
\* live, has removed the record
C2_Witness ==
    /\ last.cmd = "delete" /\ last.exit = 0
    /\ Cardinality(last.faults) >= 3
    /\ last.args.vpc \notin DOMAIN store
    /\ os.netns # {}

\* C3: apply-policy with a policy whose CIDR matches no subnet of the record
\* is reported as a failure (exit code 1) and issues no packet-filter command.
C3_UnmatchedPolicyFails ==
    (/\ last.cmd = "apply-policy"
     /\ last.args.vpc \in DOMAIN store
     /\ \A i \in 1..Len(store[last.args.vpc].subnets) :
           store[last.args.vpc].subnets[i].v.cidr # last.args.policy.subnet)
    => (last.exit = 1 /\ last.issued = <<>>)

\* C3 case reached: a policy for a CIDR of no subnet was applied to a VPC
\* that has subnets
C3_Witness ==
    /\ last.cmd = "apply-policy"
    /\ last.args.vpc \in DOMAIN store
    /\ store[last.args.vpc].subnets # <<>>
    /\ last.errlog = <<"Subnet not found">>

\* C4: a successful create leaves a record with no subnets; a successful
\* add-subnet under a name not yet in the record leaves the earlier subnets
\* as they were and appends one subnet of that name with the type and CIDR
\* given, the namespace "<vpc>-<name>" and the first host address of the CIDR
\* with its prefix length; show prints exactly the loaded record.
C4_RecordFollowsAddSubnets ==
    [][/\ (last'.cmd = "create" /\ last'.exit = 0)
            => (/\ last'.args.vpc \in DOMAIN store'
                /\ load(store', last'.args.vpc).vpc.cidr = last'.args.cidr
                /\ Recorded(store', last'.args.vpc) = <<>>)
       /\ (/\ last'.cmd = "add-subnet" /\ last'.exit = 0
           /\ ~DictHas(Recorded(store, last'.args.vpc), last'.args.subnet))
            => LET a   == last'.args
                   old == Recorded(store, a.vpc)
                   new == Recorded(store', a.vpc)
               IN /\ Len(new) = Len(old) + 1
                  /\ SubSeq(new, 1, Len(old)) = old
                  /\ new[Len(new)].k = a.subnet
                  /\ new[Len(new)].v.type = a.type
                  /\ new[Len(new)].v.cidr = a.cidr
                  /\ new[Len(new)].v.namespace = a.vpc \o "-" \o a.subnet
                  /\ IsFirstHost(new[Len(new)].v.ip, a.cidr)
       /\ (last'.cmd = "show" /\ last'.exit = 0)
            => LET rec == load(store', last'.args.vpc).vpc
               IN /\ last'.out.name = rec.name
                  /\ last'.out.cidr = rec.cidr
                  /\ Len(last'.out.subnets) = Len(rec.subnets)
                  /\ \A i \in 1..Len(rec.subnets) :
                        /\ last'.out.subnets[i].name = rec.subnets[i].k
                        /\ last'.out.subnets[i].type = rec.subnets[i].v.type
                        /\ last'.out.subnets[i].cidr = rec.subnets[i].v.cidr
                        /\ last'.out.subnets[i].namespace = rec.subnets[i].v.namespace
                        /\ last'.out.subnets[i].ip = rec.subnets[i].v.ip
      ]_vars

\* C4 witness: create vpc1 10.5.0.0/16, add-subnet web 10.5.1.0/24 public and
\* add-subnet db 10.5.2.77/24 private, then show: web, public, 10.5.1.0/24,
\* vpc1-web, 10.5.1.1/24 first and db, with 10.5.2.1/24, after it
C4_Witness ==
    /\ last.cmd = "show"
    /\ last.exit = 0
    /\ last.out.name = "vpc1"
    /\ last.out.cidr = Cidr(10, 5, 0, 0, 16)
    /\ last.out.subnets =
          << [name |-> "web", type |-> "public", cidr |-> Cidr(10, 5, 1, 0, 24),
              namespace |-> "vpc1-web", ip |-> Cidr(10, 5, 1, 1, 24)],
             [name |-> "db", type |-> "private", cidr |-> Cidr(10, 5, 2, 77, 24),
              namespace |-> "vpc1-db", ip |-> Cidr(10, 5, 2, 1, 24)] >>

\* C5: every file of the store loads back as the object its last save wrote:
\* the same name, cidr, bridge name and subnet mapping, and nothing of the
\* saves before it.
C5_SaveLoadRoundTrip ==
    /\ DOMAIN store = DOMAIN saved
    /\ \A n \in DOMAIN store :
          /\ load(store, n).exc = ""
          /\ load(store, n).vpc.name = saved[n].name
          /\ load(store, n).vpc.cidr = saved[n].cidr
          /\ load(store, n).vpc.bridge = saved[n].bridge
          /\ load(store, n).vpc.subnets = saved[n].subnets

\* C5 witness: an object with two subnets was saved and loaded, and a later
\* save of the same name with one other subnet has replaced the file
C5_Witness ==
    /\ loaded.name = "vpc1"
    /\ Len(loaded.subnets) = 2
    /\ "vpc1" \in DOMAIN store
    /\ Len(store["vpc1"].subnets) = 1
    /\ store["vpc1"].subnets[1].v.cidr = Cidr(10, 2, 1, 0, 24)
    /\ load(store, "vpc1").vpc = saved["vpc1"]

\* C6: an add-subnet that repeats, undisturbed, an add-subnet with the same
\* arguments that stopped on an error or ran to its end, exits 0 and ends in
\* the OS state and the store that one undisturbed run of the first of them
\* leads to, whenever that undisturbed run succeeds.
C6_RetryConverges ==
    (/\ last.cmd = "add-subnet"
     /\ last.retry # ""
     /\ last.faults = {}
     /\ last.ideal.exit = 0)
    => (/\ last.exit = 0
        /\ os = last.ideal.os
        /\ store = last.ideal.store)

\* C6 witness: the repeat of an add-subnet that had stopped part way found
\* several of its steps already applied
C6_Witness ==
    /\ last.cmd = "add-subnet"
    /\ last.retry = "interrupted"
    /\ last.exit = 0
    /\ last.warns >= 3
    /\ DictHas(Recorded(store, last.args.vpc), last.args.subnet)

\* C7: a create or add-subnet in which a command error propagates exits 1
\* with that command the last one issued, the OS state is the one its issued
\* commands lead to (nothing that was live before is gone), and the store
\* is what it was before the run.
C7_FailFastNoRollback ==
    [][(last'.cmd \in {"create", "add-subnet"} /\ last'.exc = "CalledProcessError")
       => (/\ last'.exit = 1
           /\ Len(last'.issued) >= 1
           /\ \A i \in 1..Len(last'.issued) :
                 last'.issued[i].raised <=> i = Len(last'.issued)
           /\ \A f \in last'.faults :
                 f[2] = "other" => Len(last'.issued) <= f[1]
           /\ os' = Replay(os, last'.issued, 1)
           /\ os.netns \subseteq os'.netns
           /\ {l.name : l \in os.links} \subseteq {l.name : l \in os'.links}
           /\ store' = store)]_vars

\* C7 witness: an add-subnet stopped at its sixth command, with the namespace
\* and the link pair of the subnet left live and the subnet not recorded
C7_Witness ==
    /\ last.cmd = "add-subnet"
    /\ last.exc = "CalledProcessError"
    /\ Len(last.issued) = 6
    /\ last.exit = 1
    /\ last.args.vpc \o "-" \o last.args.subnet \in os.netns
    /\ HasLink(os, HostNS, "veth-" \o last.args.subnet)
    /\ last.args.vpc \in DOMAIN store
    /\ ~DictHas(Recorded(store, last.args.vpc), last.args.subnet)

C9_MissingRecordFails ==
    [][(/\ last'.cmd \in {"add-subnet", "enable-nat", "apply-policy", "deploy-web",
                          "show", "delete", "fix-connectivity"}
        /\ last'.args.vpc \notin DOMAIN store)
       => (/\ last'.exc = "FileNotFoundError"
           /\ last'.exit = 1
           /\ last'.issued = <<>>
           /\ os' = os
           /\ store' = store)]_vars

\* C9 witness: deploy-web on a name whose record a delete has removed
C9_Witness ==
    /\ last.cmd = "deploy-web"
    /\ last.exc = "FileNotFoundError"
    /\ last.exit = 1
    /\ last.args.vpc \notin DOMAIN store
    /\ os.fwd # <<>>

\* C10: deploy-web naming a subnet that is not in the record exits 1 and
\* issues no command.
C10_UnknownSubnetFails ==
    (/\ last.cmd = "deploy-web"
     /\ last.args.vpc \in DOMAIN store
     /\ ~DictHas(store[last.args.vpc].subnets, last.args.subnet))
    => (last.exit = 1 /\ last.issued = <<>>)

\* C10 case reached: deploy-web for subnet db on a VPC whose only subnet
\* is web
C10_Witness ==
    /\ last.cmd = "deploy-web"
    /\ last.args.subnet = "db"
    /\ last.args.vpc \in DOMAIN store
    /\ DictKeys(store[last.args.vpc].subnets) = {"web"}
    /\ os.procs = {}

\* the namespaces the record of v names, and its bridge
RecordNamespaces(st, v) ==
    {Recorded(st, v)[i].v.namespace : i \in 1..Len(Recorded(st, v))}

RecordBridge(st, v) == load(st, v).vpc.bridge

\* C11: cleanup-orphans deletes no namespace and no bridge of a VPC whose
\* record exists, and leaves the store as it was.
C11_CleanupSparesRecorded ==
    [][(last'.cmd = "cleanup-orphans")
       => (/\ store' = store
           /\ \A v \in DOMAIN store :
                 /\ (RecordNamespaces(store, v) \cap os.netns) \subseteq os'.netns
                 /\ HasLink(os, HostNS, RecordBridge(store, v))
                       => HasLink(os', HostNS, RecordBridge(store, v)))]_vars

\* C11 case reached: cleanup-orphans has run while a record existed and has
\* deleted a bridge and a namespace
C11_Witness ==
    /\ last.cmd = "cleanup-orphans"
    /\ last.exit = 0
    /\ DOMAIN store # {}
    /\ \E i \in 1..Len(last.issued) :
          last.issued[i].c.op = "link_del" /\ last.issued[i].rc = 0
    /\ \E i \in 1..Len(last.issued) :
          last.issued[i].c.op = "netns_del" /\ last.issued[i].rc = 0

\* the VPC names recover infers from the live namespaces
Inferred(o) == {SplitDash(n)[1] : n \in o.netns}

\* C12: a recover that follows a recover over the same live namespaces
\* writes the same records; in them dev has 10.0.0.0/16, prod 10.1.0.0/16
\* and test 10.2.0.0/16; and a recover that infers a VPC name outside these
\* logs a warning.
C12_RecoverDeterministic ==
    [][(last'.cmd = "recover" /\ last'.exit = 0)
       => (/\ (last.cmd = "recover" /\ last.exit = 0 /\ os' = os)
                => store' = store
           /\ "dev" \in Inferred(os) => store'["dev"].cidr = Cidr(10, 0, 0, 0, 16)
           /\ "prod" \in Inferred(os) => store'["prod"].cidr = Cidr(10, 1, 0, 0, 16)
           /\ "test" \in Inferred(os) => store'["test"].cidr = Cidr(10, 2, 0, 0, 16)
           /\ (Inferred(os) \ {"dev", "prod", "test"} # {})
                => (last'.warns > 0 \/ last'.errlog # <<>>))]_vars

\* C12 case reached: recover has written the records of dev and of a VPC
\* name it has no fixed range for
C12_Witness ==
    /\ last.cmd = "recover"
    /\ last.exit = 0
    /\ {"dev", "vpc1"} \subseteq Inferred(os)
    /\ store["dev"].cidr = Cidr(10, 0, 0, 0, 16)
    /\ store["vpc1"].cidr = Cidr(10, 77, 0, 0, 16)
    /\ store["vpc1"].subnets[1].v.ip = Cidr(10, 2, 1, 10, 24)

\* C13: diagnose flags the orphan condition exactly when a namespace or a
\* bridge named by the VPC convention is live and no record exists; it
\* changes neither the OS state nor the store.
C13_DiagnoseFlagsOrphans ==
    [][(last'.cmd = "diagnose" /\ last'.exit = 0)
       => (/\ last'.out.orphan <=>
                 (/\ os.netns # {} \/ \E l \in os.links :
                                         /\ l.ns = HostNS /\ l.kind = "bridge"
                                         /\ VpcConvention(l.name)
                  /\ DOMAIN store = {})
           /\ os' = os
           /\ store' = store)]_vars

\* C13 case reached: diagnose has flagged a live namespace left without any
\* record
C13_Witness ==
    /\ last.cmd = "diagnose"
    /\ last.exit = 0
    /\ last.out.orphan
    /\ last.out.namespaces # <<>>
    /\ DOMAIN store = {}

\* C14: a subnet entry that is in the record of a VPC before and after an
\* operation has the same namespace name and the same interface address.
C14_SubnetIdentityImmutable ==
    [][\A v \in DOMAIN store \cap DOMAIN store' :
          \A sn \in DictKeys(Recorded(store, v)) \cap DictKeys(Recorded(store', v)) :
             /\ DictGet(Recorded(store', v), sn).namespace
                   = DictGet(Recorded(store, v), sn).namespace
             /\ DictGet(Recorded(store', v), sn).ip
                   = DictGet(Recorded(store, v), sn).ip]_vars

\* C14 case reached: subnet web of vpc1, recorded with 10.5.1.1/24, has
\* been added again with the range 10.5.2.77/24
C14_Witness ==
    /\ last.cmd = "add-subnet"
    /\ last.exit = 0
    /\ last.args.subnet = "web"
    /\ last.args.cidr = Cidr(10, 5, 2, 77, 24)
    /\ \E a \in TheLink(os, "vpc1-web", "vweb").addrs : a = Cidr(10, 5, 1, 1, 24)
    /\ DictGet(Recorded(store, "vpc1"), "web").namespace = "vpc1-web"

\* the subnet names in the record of v
RecordKeys(st, v) == IF v \in DOMAIN st THEN DictKeys(st[v].subnets) ELSE {}

\* both processes ended with exit 0, p wrote the record before q did
BothSucceeded(p, q) ==
    /\ Finished(p) /\ Finished(q)
    /\ proc[p].exc = "" /\ proc[q].exc = ""
    /\ proc[p].rank < proc[q].rank
    /\ proc[p].args[1] # proc[q].args[1]

\* C15: of two add-subnet processes on one VPC that both exit 0, the one
\* that writes the record last decides it: the other's subnet is in the
\* record exactly if the last writer loaded after the other had written;
\* both namespaces are live either way.
C15_LastWriterWins ==
    \A p \in Procs, q \in Procs :
       BothSucceeded(p, q)
          => /\ proc[q].args[1] \in RecordKeys(store, proc[q].vpc.name)
             /\ (proc[p].args[1] \in RecordKeys(store, proc[q].vpc.name))
                   <=> (p \in proc[q].seen)
             /\ {proc[r].vpc.name \o "-" \o proc[r].args[1] : r \in {p, q}}
                   \subseteq os.netns

\* C15 case reached: both exited 0, the record has one subnet only, and the
\* namespace of the other subnet is live
C15_Witness ==
    \E p \in Procs, q \in Procs :
       /\ BothSucceeded(p, q)
       /\ RecordKeys(store, "vpc1") = {proc[q].args[1]}
       /\ ("vpc1-" \o proc[p].args[1]) \in os.netns

\* an address as the pair of its 16-bit halves, and the network address of
\* a range plus one, by arithmetic on the halves
Halves(oct) == <<oct[1] * 256 + oct[2], oct[3] * 256 + oct[4]>>

NetworkPlusOne(c) ==
    LET h   == Halves(c.oct)
        hi  == IF c.len >= 16 THEN h[1]
               ELSE (h[1] \div 2 ^ (16 - c.len)) * 2 ^ (16 - c.len)
        lo  == IF c.len <= 16 THEN 0
               ELSE (h[2] \div 2 ^ (32 - c.len)) * 2 ^ (32 - c.len)
    IN IF lo < 65535 THEN <<hi, lo + 1>> ELSE <<hi + 1, 0>>

IsAddress(oct) == Len(oct) = 4 /\ \A i \in 1..4 : oct[i] \in 0..255

\* both functions returned, and returned the network address plus one
ReturnedFirstAddress ==
    /\ ~calc.raised
    /\ IsAddress(calc.gateway)
    /\ Halves(calc.gateway) = NetworkPlusOne(calc.cidr)
    /\ calc.ip = [oct |-> calc.gateway, len |-> calc.cidr.len]

\* C16 as stated: for every valid IPv4 CIDR both functions return the
\* network address plus one (the subnet form with the prefix length)
C16_FirstAddressAlways ==
    (calc.done /\ ValidCidr(calc.cidr)) => ReturnedFirstAddress

\* C16 amended: for every valid IPv4 CIDR both functions return the network
\* address plus one, host bits of the input ignored, except for
\* 255.255.255.255/32, whose network address has no successor: there both
\* raise.
C16_FirstAddress ==
    (calc.done /\ ValidCidr(calc.cidr))
       => IF calc.cidr = Cidr(255, 255, 255, 255, 32) THEN calc.raised
          ELSE ReturnedFirstAddress

\* C16 case reached: a range written with non-zero host bits
C16_Witness ==
    /\ calc.done
    /\ calc.cidr = Cidr(10, 0, 1, 77, 24)
    /\ calc.gateway = <<10, 0, 1, 1>>
    /\ calc.ip = Cidr(10, 0, 1, 1, 24)

\* every command the last invocation issued exited 0
AllSucceeded == \A i \in 1..Len(last.issued) : last.issued[i].rc = 0

\* C17: after a delete all of whose commands succeeded, no namespace of a
\* recorded subnet, no bridge and no masquerade rule for the range of the
\* VPC is left.
C17_DeleteLeavesNothing ==
    [][(last'.cmd = "delete" /\ last'.exit = 0
          /\ \A i \in 1..Len(last'.issued) : last'.issued[i].rc = 0)
       => LET v == last'.args.vpc
          IN /\ RecordNamespaces(store, v) \cap os'.netns = {}
             /\ ~HasLink(os', HostNS, RecordBridge(store, v))
             /\ \A i \in 1..Len(os'.nat) : os'.nat[i].src # store[v].cidr]_vars

\* C17 case reached: a delete all of whose commands succeeded, on a VPC
\* with a subnet and after two enable-nat invocations
C17_Witness ==
    /\ last.cmd = "delete"
    /\ last.exit = 0
    /\ AllSucceeded
    /\ \E i \in 1..Len(last.issued) : last.issued[i].c.op = "netns_del"
    /\ \E i \in 1..Len(last.issued) : last.issued[i].c.op = "nat_delete"
    /\ Len(os.fwd) = 2 * MaxNat

RECURSIVE FilterRules(_, _)
\* the packet-filter rules a list of ingress rules stands for in namespace
\* ns: allow is accept, deny is drop, anything else is no rule
FilterRules(ingress, ns) ==
    IF ingress = <<>> THEN <<>>
    ELSE LET r == Head(ingress)
             t == IF r.action = "allow" THEN <<"ACCEPT">>
                  ELSE IF r.action = "deny" THEN <<"DROP">> ELSE <<>>
         IN [i \in 1..Len(t) |-> [ns |-> ns, proto |-> r.protocol,
                                  port |-> r.port, target |-> t[i]]]
            \o FilterRules(Tail(ingress), ns)

\* the namespaces of the recorded subnets of v whose range is c
MatchingNamespaces(st, v, c) ==
    {Recorded(st, v)[i].v.namespace :
        i \in {j \in 1..Len(Recorded(st, v)) : Recorded(st, v)[j].v.cidr = c}}

\* the position of the failing command of a run, 0 if none fails
FailsAt(faults) == IF faults = {} THEN 0 ELSE (CHOOSE f \in faults : TRUE)[1]

\* C18: apply-policy on a policy whose range matches a recorded subnet
\* appends to the packet filter of that subnet's namespace, and to nothing
\* else, one rule per ingress rule with action allow (accept) or deny
\* (drop), in the policy's order, after the rules already there; when the
\* command for rule j fails the rules 1..j-1 are appended and the run exits
\* 1.
C18_PolicyAppendsInOrder ==
    [][(/\ last'.cmd = "apply-policy"
        /\ last'.args.vpc \in DOMAIN store
        /\ MatchingNamespaces(store, last'.args.vpc, last'.args.policy.subnet) # {})
       => LET ns    == CHOOSE n \in MatchingNamespaces(store, last'.args.vpc,
                                       last'.args.policy.subnet) : TRUE
              rules == FilterRules(last'.args.policy.ingress, ns)
              j     == FailsAt(last'.faults)
              done  == IF j = 0 \/ j > Len(rules) THEN Len(rules) ELSE j - 1
          IN /\ os'.filt = os.filt \o SubSeq(rules, 1, done)
             /\ os' = [os EXCEPT !.filt = os'.filt]
             /\ store' = store
             /\ last'.exit = IF done = Len(rules) THEN 0 ELSE 1]_vars

\* C18 case reached: the policy was applied before, and its second
\* application failed on its second rule: the first rule is there twice
C18_Witness ==
    /\ last.cmd = "apply-policy"
    /\ last.exit = 1
    /\ FailsAt(last.faults) = 2
    /\ Len(last.args.policy.ingress) = 3
    /\ Len(os.filt) = 3
    /\ os.filt[1] = os.filt[3]
    /\ os.filt[1].target = "ACCEPT"
    /\ os.filt[2].target = "DROP"

RECURSIVE Provision(_, _, _, _)
\* the OS state and store after add-subnet for the recorded subnets i.. of
\* rec, each run undisturbed on what the one before left
Provision(o, st, rec, i) ==
    IF i > Len(rec.subnets) THEN [os |-> o, store |-> st]
    ELSE LET e == rec.subnets[i]
             w == Main("add-subnet",
                       [vpc |-> rec.name, subnet |-> e.k, cidr |-> e.v.cidr,
                        type |-> e.v.type], o, st, {})
         IN Provision(w.os, w.store, rec, i + 1)

\* what create and add-subnet produce for the record of v, from nothing
Provisioned(st, v) ==
    LET w == Main("create", [vpc |-> v, cidr |-> st[v].cidr], InitOS, EmptyDir, {})
    IN Provision(w.os, w.store, st[v], 1)

\* C19: fix-connectivity on a VPC whose live state is exactly what create
\* and add-subnet produced leaves the OS state and the record unchanged.
C19_FixConnectivityIdempotent ==
    [][(/\ last'.cmd = "fix-connectivity"
        /\ last'.args.vpc \in DOMAIN store
        /\ Provisioned(store, last'.args.vpc) = [os |-> os, store |-> store])
       => (os' = os /\ store' = store)]_vars

\* C19 case reached: fix-connectivity ran on the provisioned state of a VPC
\* with a subnet and created a link pair for it
C19_Witness ==
    /\ last.cmd = "fix-connectivity"
    /\ \E i \in 1..Len(last.issued) :
          last.issued[i].c.op = "veth_add" /\ last.issued[i].rc = 0
    /\ "vpc1" \in DOMAIN store
    /\ Recorded(store, "vpc1") # <<>>
    /\ Provisioned(store, "vpc1").store = store
    /\ Replay(Provisioned(store, "vpc1").os, last.issued, 1) = os

\* the recorded subnet e of the VPC recorded as rec is wired in o: its host
\* link is a port of the VPC's bridge and the peer of that link is inside
\* the subnet's namespace with the recorded address
Wired(o, rec, e) ==
    \E h \in o.links, n \in o.links :
       /\ h.ns = HostNS /\ h.name = e.veth_host /\ h.master = rec.bridge
       /\ n.ns = e.namespace /\ n.kind = "veth" /\ n.pair = h.pair
       /\ e.ip \in n.addrs

\* the bridge ports of the VPCs other than v, with the bridge of each
OtherPorts(o, st, v) ==
    {[name |-> l.name, master |-> l.master] :
        l \in {k \in o.links : \E u \in DOMAIN st \ {v} :
                                  k.ns = HostNS /\ k.master = st[u].bridge}}

\* C20: every subnet of every record has its own host link on its own
\* VPC's bridge with the peer in its own namespace carrying the recorded
\* address, and a successful add-subnet on one VPC leaves the bridge ports
\* of the other VPCs as they were.
C20_SubnetsIsolated ==
    /\ [](\A v \in DOMAIN store :
             \A i \in 1..Len(store[v].subnets) :
                Wired(os, store[v], store[v].subnets[i].v))
    /\ [][(last'.cmd = "add-subnet" /\ last'.exit = 0)
             => OtherPorts(os', store, last'.args.vpc)
                   = OtherPorts(os, store, last'.args.vpc)]_vars

\* C20 case reached: two VPCs each with a recorded subnet web, the second
\* added successfully after the first
C20_Witness ==
    /\ last.cmd = "add-subnet"
    /\ last.exit = 0
    /\ last.args.vpc = "vpc2"
    /\ {"vpc1", "vpc2"} \subseteq DOMAIN store
    /\ "web" \in RecordKeys(store, "vpc1") \cap RecordKeys(store, "vpc2")
    /\ {"vpc1-web", "vpc2-web"} \subseteq os.netns

\* the namespace names listed in the persisted records
RecordedNamespaces == UNION {RecordNamespaces(store, v) : v \in DOMAIN store}

\* C21: as long as the environment has disturbed no command, the live
\* namespaces are exactly the namespaces the records list, after any
\* sequence of create, add-subnet and delete.
C21_NamespacesMatchRecords ==
    faulty = 0 => os.netns = RecordedNamespaces

\* C21 case reached: create was issued again, undisturbed, for a VPC whose
\* subnet namespaces are live
C21_Witness ==
    /\ faulty = 0
    /\ last.cmd = "create"
    /\ last.exit = 0
    /\ last.args.vpc \in DOMAIN store
    /\ \E sn \in SubnetNames : (last.args.vpc \o "-" \o sn) \in os.netns

\* the VPC and subnet names add-subnet was given in the lost-record runs
BuiltNames == {<<sa[1], sa[2]>> : sa \in LostSubnetArgs}

\* C22: when recover runs with no record present, every live namespace
\* "<vpc>-<subnet>" of a VPC built by create and add-subnet gets a loadable
\* record named <vpc> with an entry <subnet> that names the namespace.
C22_RecoverRebuildsRecords ==
    [][(last'.cmd = "recover" /\ last'.exit = 0 /\ store = EmptyDir)
       => \A b \in BuiltNames :
             (b[1] \o "-" \o b[2]) \in os.netns
                => /\ load(store', b[1]).exc = ""
                   /\ DictHas(Recorded(store', b[1]), b[2])
                   /\ DictGet(Recorded(store', b[1]), b[2]).namespace
                         = b[1] \o "-" \o b[2]]_vars

\* C22 case reached: recover ran on an empty store with the namespaces of
\* dev and of my-vpc live
C22_Witness ==
    /\ last.cmd = "recover"
    /\ last.exit = 0
    /\ {"dev-public", "my-vpc-web"} \subseteq os.netns
    /\ DictHas(Recorded(store, "dev"), "public")
    /\ DOMAIN store = {"dev", "my"}

\* range c lies inside range d
Inside(c, d) == c.len >= d.len /\ InNet(c.oct, d)

\* C23: in every record recover writes, each subnet's /24 range lies inside
\* the range of its VPC, the j-th subnet in discovery order has the range
\* numbered j, and each recorded interface address lies inside the range of
\* its subnet.
C23_RecoveredRangesNest ==
    [][(last'.cmd = "recover" /\ last'.exit = 0)
       => \A v \in Inferred(os) :
             LET rec == store'[v]
             IN \A j \in 1..Len(rec.subnets) :
                   LET e == rec.subnets[j].v
                   IN /\ e.cidr.len = 24
                      /\ Inside(e.cidr, rec.cidr)
                      /\ e.cidr.oct[3] = j
                      /\ \A k \in 1..Len(rec.subnets) :
                            k # j => rec.subnets[k].v.cidr # e.cidr
                      /\ e.ip.len = e.cidr.len
                      /\ InNet(e.ip.oct, e.cidr)]_vars

\* C23 case reached: recover wrote a record with two subnets for a name it
\* knows and a record for a name it does not know
C23_Witness ==
    /\ last.cmd = "recover"
    /\ last.exit = 0
    /\ DOMAIN store = {"dev", "my"}
    /\ Len(store["dev"].subnets) = 2
    /\ store["dev"].subnets[2].v.cidr = Cidr(10, 0, 2, 0, 24)
    /\ Len(store["my"].subnets) = 1

====
